---- MODULE Spec2Model ----
(***************************************************************************)
(* Model of the WildApricot integration: the API client                    *)
(* (src/integrations/wildapricot/api.py: WaApiClient, ApiObject,           *)
(* _ApiObjectEncoder) and the snapshot diff/report program (src/main.py).  *)
(*                                                                         *)
(* Values.  A JSON document and a Python value are both written as a       *)
(* tagged record [k |-> kind, v |-> payload]:                              *)
(*   JSON:    "num" "str" "null" "arr" (sequence) "obj" (record/function)  *)
(*   Python:  "num" "str" "None" "list" (sequence) "dict" (record)         *)
(*            "ApiObject" (its __dict__, a record) "datetime" (an instant) *)
(*            "raise" (the exception type an evaluation ended with)        *)
(* Raw bytes of an HTTP body or a file are [k |-> "bytes", v |-> j], the   *)
(* serialisation of the JSON document j, or of no document at all          *)
(* ("invalid").                                                            *)
(***************************************************************************)
EXTENDS Integers, Sequences, FiniteSets, TLC

VARIABLES
    \* ---- Dynamic Object Mapper run (api.py 127-142, 166-195)
    json_in,      \* the JSON document handed to json.loads / _parse_data
    decoded,      \* result of _parse_data(json.loads(json_in)), or Pending
    encoded,      \* result of json.dumps(decoded, cls=_ApiObjectEncoder), or Pending
    \* ---- WaApiClient instance (api.py 26-125)
    client_id,    \* self.client_id (self.client_secret is set alongside)
    token,        \* self._token
    accountId,    \* self._accountId (NoAttr: the attribute was never set)
    clock,        \* datetime.datetime.now()
    obtained,     \* history: some token-endpoint answer has been stored in _token
    last,         \* the call that just returned or raised
    \* ---- main() run (main.py 39-133)
    argv,         \* the command line as getopt sees it
    pc,           \* position in main()
    now,          \* main.py 68
    old_data_filename,
    new_data_filename,
    data_dir,     \* what listdir(data_path) returned
    old_events,
    new_events,
    old_by_tag,
    new_by_tag,
    report,
    printed,      \* the report entries rendered so far, in order
    written,      \* snapshot files written by this run
    steps,        \* history: the steps main() has begun, in order
    exit_status   \* Running, or the process exit status

mapperVars == <<json_in, decoded, encoded>>
clientVars == <<client_id, token, accountId, clock, obtained, last>>
mainVars == <<argv, pc, now, old_data_filename, new_data_filename, data_dir, old_events, new_events, old_by_tag, new_by_tag, report, printed, written, steps, exit_status>>
vars == <<mapperVars, clientVars, mainVars>>

----------------------------------------------------------------------------
(* Values *)

Num(n) == [k |-> "num", v |-> n]
Str(s) == [k |-> "str", v |-> s]
Null == [k |-> "null", v |-> 0]
Arr(s) == [k |-> "arr", v |-> s]
Obj(r) == [k |-> "obj", v |-> r]

PyNone == [k |-> "None", v |-> 0]
PyList(s) == [k |-> "list", v |-> s]
PyDict(r) == [k |-> "dict", v |-> r]
PyApiObject(r) == [k |-> "ApiObject", v |-> r]
PyDatetime(t) == [k |-> "datetime", v |-> t]
PyBool(b) == [k |-> "bool", v |-> b]
Raise(e) == [k |-> "raise", v |-> e]
Pending == [k |-> "pending", v |-> 0]

Bytes(j) == [k |-> "bytes", v |-> j]
InvalidBytes == Bytes([k |-> "invalid", v |-> 0])

IsRaise(x) == x.k = "raise"

\* the first raised exception among the elements of s, if any
FirstRaise(s) == s[CHOOSE i \in DOMAIN s : IsRaise(s[i]) /\ \A j \in 1..(i - 1) : ~IsRaise(s[j])]

AnyRaise(s) == \E i \in DOMAIN s : IsRaise(s[i])

----------------------------------------------------------------------------
(* Dynamic Object Mapper *)

\* json.loads (api.py 131): JSON document -> plain Python value
RECURSIVE json_loads(_)
json_loads(j) ==
    CASE j.k = "invalid" -> Raise("JSONDecodeError")
      [] j.k = "null" -> PyNone
      [] j.k = "arr" -> PyList([i \in DOMAIN j.v |-> json_loads(j.v[i])])
      [] j.k = "obj" -> PyDict([f \in DOMAIN j.v |-> json_loads(j.v[f])])
      [] OTHER -> j

\* ApiObject.__init__ (api.py 169-181).  Assigning a non-dict to __dict__
\* raises TypeError.  Only dict values, and dict items found directly in a
\* list value, are converted; everything else is kept as it is.
RECURSIVE ApiObject(_)
ApiObjectListItem(item) ==
    IF item.k = "dict" THEN ApiObject(item) ELSE item

ApiObjectField(value) ==
    CASE value.k = "dict" -> ApiObject(value)
      [] value.k = "list" -> PyList([i \in DOMAIN value.v |-> ApiObjectListItem(value.v[i])])
      [] OTHER -> value

ApiObject(state) ==
    IF state.k # "dict"
    THEN Raise("TypeError")
    ELSE PyApiObject([f \in DOMAIN state.v |-> ApiObjectField(state.v[f])])

\* WaApiClient._parse_data (api.py 133-142)
parse_data(data) ==
    CASE data.k = "list" ->
            LET result == [i \in DOMAIN data.v |-> ApiObject(data.v[i])]
            IN  IF AnyRaise(result) THEN FirstRaise(result) ELSE PyList(result)
      [] data.k = "dict" -> ApiObject(data)
      [] OTHER -> PyNone

\* WaApiClient._parse_response (api.py 127-131)
parse_response(body) ==
    LET data == json_loads(body.v)
    IN  IF IsRaise(data) THEN data ELSE parse_data(data)

\* json.dumps(obj, cls=_ApiObjectEncoder) (api.py 84, 190-195): the encoder's
\* default() hands an ApiObject's __dict__ back to the encoder; a datetime
\* is not serialisable (the base default raises TypeError).
RECURSIVE json_dumps(_)
json_dumps(obj) ==
    CASE obj.k = "None" -> Null
      [] obj.k = "list" ->
            LET items == [i \in DOMAIN obj.v |-> json_dumps(obj.v[i])]
            IN  IF AnyRaise(items) THEN FirstRaise(items) ELSE Arr(items)
      [] obj.k \in {"dict", "ApiObject"} ->
            LET fields == [f \in DOMAIN obj.v |-> json_dumps(obj.v[f])]
            IN  IF \E f \in DOMAIN fields : IsRaise(fields[f])
                THEN Raise("TypeError")
                ELSE Obj(fields)
      [] obj.k \in {"num", "str"} -> obj
      [] OTHER -> Raise("TypeError")

(* Bounded JSON documents *)
MaxDepth == 2
JsonKeys == {"a", "b"}
JsonScalars == {Num(1), Str("x"), Null}
ArrayLens == {0, 1, 2}

RECURSIVE JsonValues(_)
JsonValues(d) ==
    IF d = 0
    THEN JsonScalars
    ELSE LET sub == JsonValues(d - 1)
         IN  sub
             \cup {Arr(s) : s \in UNION {[1..n -> sub] : n \in ArrayLens}}
             \cup {Obj(r) : r \in UNION {[K -> sub] : K \in SUBSET JsonKeys}}

MapperInit ==
    /\ json_in \in JsonValues(MaxDepth)
    /\ decoded = Pending
    /\ encoded = Pending

\* no mapper run in progress
MapperIdle ==
    /\ json_in = Null
    /\ decoded = Pending
    /\ encoded = Pending

\* _parse_data(json.loads(...)) on the document
Decode ==
    /\ decoded = Pending
    /\ decoded' = parse_response(Bytes(json_in))
    /\ UNCHANGED <<json_in, encoded, clientVars, mainVars>>

\* json.dumps(..., cls=_ApiObjectEncoder) on what the decoding returned
Encode ==
    /\ decoded # Pending
    /\ ~IsRaise(decoded)
    /\ encoded = Pending
    /\ encoded' = json_dumps(decoded)
    /\ UNCHANGED <<json_in, decoded, clientVars, mainVars>>

----------------------------------------------------------------------------
(* WaApiClient *)

NoAttr == [k |-> "noattr", v |-> 0]

HasAttr(obj, name) == obj.k = "ApiObject" /\ name \in DOMAIN obj.v

\* obj.name = value on an ApiObject
SetAttr(obj, name, value) ==
    PyApiObject([f \in (DOMAIN obj.v) \cup {name} |-> IF f = name THEN value ELSE obj.v[f]])

\* Exceptions: [type, value]; NoExc when the call returned.
Exc(type, value) == [type |-> type, value |-> value]
NoExc == Exc("none", Null)
ExcOf(raised) == Exc(raised.v, Null)

\* api.py 70-71
NotObtainedMessage == Str("Access token is not abtained. Call authenticate_with_apikey or authenticate_with_contact_credentials first.")

\* The safety margin of api.py 100, in seconds
Margin == 100

\* An HTTP exchange: status 0 stands for no HTTP answer at all (urlopen
\* raises URLError), 200 for success, anything else makes urlopen raise
\* HTTPError carrying the status and the body.
Answer(status, body) == [status |-> status, body |-> body]

\* The part of an instance that its methods read and write
Self == [client_id |-> client_id, token |-> token, accountId |-> accountId, clock |-> clock, obtained |-> obtained]

\* What a call did: the instance afterwards (c), the exception or the
\* return value, the requests sent to the token endpoint and to the
\* resource API, the calls of _refresh_auth_token, the deadline checks made,
\* whether an authentication or refresh raised, the resource answer, the
\* HTTP method.
Outcome(c, exc, ret) == [c |-> c, exc |-> exc, ret |-> ret, token_requests |-> 0, api_requests |-> 0, refreshes |-> 0, checked |-> <<>>, auth_failed |-> FALSE, answer |-> Answer(0, InvalidBytes), method |-> "none"]

Raised(c, type) == Outcome(c, Exc(type, Null), PyNone)

\* self._token.Permissions[0].AccountId (api.py 57, 120)
first_account_id(tok) ==
    IF ~HasAttr(tok, "Permissions") THEN Raise("AttributeError")
    ELSE IF tok.v.Permissions.k # "list" THEN Raise("TypeError")
    ELSE IF Len(tok.v.Permissions.v) = 0 THEN Raise("IndexError")
    ELSE IF ~HasAttr(tok.v.Permissions.v[1], "AccountId") THEN Raise("AttributeError")
    ELSE tok.v.Permissions.v[1].v.AccountId

\* api.py 57, 120: self._accountId = ... once _token holds the stamped token
store_account(sent, stamped, acct) ==
    IF IsRaise(acct)
    THEN [sent EXCEPT !.c.token = stamped, !.c.obtained = TRUE, !.exc = ExcOf(acct)]
    ELSE [sent EXCEPT !.c.token = stamped, !.c.obtained = TRUE, !.c.accountId = acct, !.auth_failed = FALSE]

\* api.py 56, 119: self._token.retrieved_at = now()
stamp_token(sent, parsed) ==
    store_account(sent, SetAttr(parsed, "retrieved_at", PyDatetime(sent.c.clock)), first_account_id(SetAttr(parsed, "retrieved_at", PyDatetime(sent.c.clock))))

\* api.py 54-55, 117-118: urlopen, then self._token = _parse_response(...).
\* None and a list take no attribute: the next line raises AttributeError
\* with _token already replaced.
store_token(sent, answer, parsed) ==
    IF answer.status = 0 THEN [sent EXCEPT !.exc = Exc("URLError", Null)]
    ELSE IF answer.status # 200 THEN [sent EXCEPT !.exc = Exc("HTTPError", answer)]
    ELSE IF IsRaise(parsed) THEN [sent EXCEPT !.exc = ExcOf(parsed)]
    ELSE IF parsed.k # "ApiObject"
    THEN [sent EXCEPT !.c.token = parsed, !.c.obtained = sent.c.obtained \/ parsed.k # "None", !.exc = Exc("AttributeError", Null)]
    ELSE stamp_token(sent, parsed)

\* The common tail of authenticate_with_apikey and _refresh_auth_token
\* (api.py 54-57, 117-120).  A call takes no time on the clock; time passes
\* between calls.
token_request(c, answer) ==
    store_token([Outcome(c, NoExc, PyNone) EXCEPT !.token_requests = 1, !.auth_failed = TRUE], answer, parse_response(answer.body))

\* WaApiClient.authenticate_with_apikey (api.py 38-58)
authenticate_with_apikey(c, answer) == token_request(c, answer)

refreshed(r) == [r EXCEPT !.refreshes = 1, !.auth_failed = (r.exc # NoExc)]

\* WaApiClient._refresh_auth_token (api.py 106-120): reading
\* self._token.refresh_token and concatenating client_id and client_secret
\* come before the request.
refresh_auth_token(c, answer) ==
    refreshed(IF ~HasAttr(c.token, "refresh_token") THEN Raised(c, "AttributeError")
              ELSE IF c.client_id = "None" THEN Raised(c, "TypeError")
              ELSE token_request(c, answer))

\* Faulty variant: the deadline itself counts as expired
token_expired_at_deadline(t, tok) == t >= tok.v.retrieved_at.v + (tok.v.expires_in.v - Margin)

\* now > expires_at (api.py 100-102)
token_expired(t, tok) == t > tok.v.retrieved_at.v + (tok.v.expires_in.v - Margin)

\* api.py 104: return self._token.access_token
return_access_token(check, r) ==
    IF r.exc # NoExc THEN [r EXCEPT !.checked = <<check>>]
    ELSE IF ~HasAttr(r.c.token, "access_token") THEN [r EXCEPT !.checked = <<check>>, !.exc = Exc("AttributeError", Null)]
    ELSE [r EXCEPT !.checked = <<check>>, !.ret = r.c.token.v.access_token]

\* WaApiClient._get_access_token (api.py 99-104)
get_access_token(c, answer) ==
    IF ~(HasAttr(c.token, "retrieved_at") /\ HasAttr(c.token, "expires_in"))
    THEN Raised(c, "AttributeError")
    ELSE return_access_token([now |-> c.clock, retrieved_at |-> c.token.v.retrieved_at.v, expires_in |-> c.token.v.expires_in.v],
                             IF token_expired(c.clock, c.token) THEN refresh_auth_token(c, answer) ELSE Outcome(c, NoExc, PyNone))

\* Faulty variant: every HTTP error status is wrapped
http_error_wraps_all(answer) == Exc("ApiException", answer.body)

\* api.py 93-97: what an HTTPError of the resource call turns into
http_error(answer) ==
    IF answer.status = 400 THEN Exc("ApiException", answer.body) ELSE Exc("HTTPError", answer)

\* api.py 76-80
default_method(api_request_object, method) ==
    IF method # "None" THEN method
    ELSE IF api_request_object = PyNone THEN "GET" ELSE "POST"

\* api.py 90-97: the resource call and the decoding of its answer
receive(sent, apiAnswer, parsed) ==
    IF apiAnswer.status = 0 THEN [sent EXCEPT !.exc = Exc("URLError", Null)]
    ELSE IF apiAnswer.status # 200 THEN [sent EXCEPT !.exc = http_error(apiAnswer)]
    ELSE IF IsRaise(parsed) THEN [sent EXCEPT !.exc = ExcOf(parsed)]
    ELSE [sent EXCEPT !.ret = parsed]

\* api.py 88-92: the Authorization header needs the access token first
send_request(t, method, apiAnswer) ==
    IF t.exc # NoExc THEN [t EXCEPT !.ret = PyNone, !.method = method]
    ELSE receive([t EXCEPT !.ret = PyNone, !.method = method, !.api_requests = 1, !.answer = apiAnswer], apiAnswer, parse_response(apiAnswer.body))

\* WaApiClient.execute_request (api.py 60-97).  tokenAnswer is the token
\* endpoint's answer to the refresh, if one is made; apiAnswer the answer to
\* the resource call.
execute_request(c, api_request_object, method, tokenAnswer, apiAnswer) ==
    IF c.token = PyNone THEN Outcome(c, Exc("ApiException", NotObtainedMessage), PyNone)
    ELSE IF api_request_object # PyNone /\ IsRaise(json_dumps(api_request_object)) THEN Raised(c, "TypeError")
    ELSE send_request(get_access_token(c, tokenAnswer), default_method(api_request_object, method), apiAnswer)

\* api.py 124-125: events.Events, after len(events.Events) for the log
events_of(r) ==
    IF r.exc # NoExc THEN r
    ELSE IF ~HasAttr(r.ret, "Events") THEN [r EXCEPT !.exc = Exc("AttributeError", Null), !.ret = PyNone]
    ELSE IF r.ret.v.Events.k # "list" THEN [r EXCEPT !.exc = Exc("TypeError", Null), !.ret = PyNone]
    ELSE [r EXCEPT !.ret = r.ret.v.Events]

\* WaApiClient.get_events (api.py 122-125): self._accountId is read to build
\* the URL before execute_request is entered.
get_events(c, tokenAnswer, apiAnswer) ==
    IF c.accountId = NoAttr THEN Raised(c, "AttributeError")
    ELSE events_of(execute_request(c, PyNone, "None", tokenAnswer, apiAnswer))

----------------------------------------------------------------------------
(* The service, as the client sees it *)

\* An event of the events collection, as the service sends it
EventJson(id, tags, start, end, confirmed) == Obj([Id |-> Num(id), Name |-> Str("Class"), StartDate |-> Str(start), EndDate |-> Str(end), Tags |-> Arr([i \in DOMAIN tags |-> Str(tags[i])]), ConfirmedRegistrationsCount |-> Num(confirmed), PendingRegistrationsCount |-> Num(0), RegistrationsLimit |-> Num(10)])

\* A grant of the token endpoint (spec section 6): access token, lifetime in
\* seconds, account of the first permission
TokenGrants == {[a |-> "tokA", e |-> 100, acct |-> 7], [a |-> "tokB", e |-> 102, acct |-> 8]}

TokenJson(g) == Obj([access_token |-> Str(g.a), refresh_token |-> Str("refresh"), expires_in |-> Num(g.e), Permissions |-> Arr(<<Obj([AccountId |-> Num(g.acct)])>>)])

OtherGrant == [a |-> "tokC", e |-> 102, acct |-> 9]

\* 2xx answers of the token endpoint that are not a token document: not
\* JSON, a scalar, an array of scalars, an array of objects, an object
\* without Permissions, an object with an empty Permissions list
MalformedTokenBodies ==
    { InvalidBytes, Bytes(Num(1)), Bytes(Arr(<<Num(1)>>)), Bytes(Arr(<<TokenJson(OtherGrant)>>)),
      Bytes(Obj([access_token |-> Str("tokC"), refresh_token |-> Str("refresh"), expires_in |-> Num(102)])),
      Bytes(Obj([access_token |-> Str("tokC"), refresh_token |-> Str("refresh"), expires_in |-> Num(102), Permissions |-> Arr(<<>>)])) }

TokenAnswers ==
    {Answer(0, InvalidBytes), Answer(401, Bytes(Obj([error |-> Str("unauthorized_client")])))}
    \cup {Answer(200, Bytes(TokenJson(g))) : g \in TokenGrants}
    \cup {Answer(200, b) : b \in MalformedTokenBodies}

ErrorBody == Bytes(Obj([message |-> Str("validation failed")]))

SampleEvents == Arr(<<EventJson(1, <<"eta-class">>, "2030-06-01T00:00:02+00:00", "2030-06-01T00:00:03+00:00", 5)>>)

ApiAnswers ==
    {Answer(0, InvalidBytes), Answer(400, ErrorBody), Answer(404, ErrorBody), Answer(500, InvalidBytes)}
    \cup {Answer(200, b) : b \in {InvalidBytes, Bytes(Num(1)), Bytes(Arr(<<Num(1)>>)), Bytes(Arr(<<Obj([Id |-> Num(1)])>>)), Bytes(Obj([Id |-> Num(1)])), Bytes(Obj([Events |-> SampleEvents]))}}

\* api_request_object: absent, serialisable, not serialisable
RequestObjects == {PyNone, PyApiObject([Name |-> Str("Class")]), PyApiObject([at |-> PyDatetime(0)])}
Methods == {"None", "PUT"}

MaxTime == 3

----------------------------------------------------------------------------
(* Calls on one WaApiClient instance *)

Idle == [op |-> "none"]

Called(op, r) == [op |-> op, pre |-> Self, exc |-> r.exc, ret |-> r.ret, token_requests |-> r.token_requests, api_requests |-> r.api_requests, refreshes |-> r.refreshes, checked |-> r.checked, auth_failed |-> r.auth_failed, answer |-> r.answer, method |-> r.method]

Apply(op, r) ==
    /\ client_id' = r.c.client_id
    /\ token' = r.c.token
    /\ accountId' = r.c.accountId
    /\ clock' = r.c.clock
    /\ obtained' = r.c.obtained
    /\ last' = Called(op, r)

\* WaApiClient.__init__ (api.py 26-36): _token is the class attribute None,
\* _accountId does not exist yet.
ClientInit ==
    /\ client_id \in {"None", "client"}
    /\ token = PyNone
    /\ accountId = NoAttr
    /\ clock = 0
    /\ obtained = FALSE
    /\ last = Idle

Authenticate ==
    /\ last = Idle
    /\ \E answer \in TokenAnswers :
           Apply("authenticate_with_apikey", authenticate_with_apikey(Self, answer))
    /\ UNCHANGED <<mapperVars, mainVars>>

GetAccessToken ==
    /\ last = Idle
    /\ \E answer \in TokenAnswers :
           Apply("_get_access_token", get_access_token(Self, answer))
    /\ UNCHANGED <<mapperVars, mainVars>>

ExecuteRequest ==
    /\ last = Idle
    /\ \E obj \in RequestObjects, method \in Methods, tokenAnswer \in TokenAnswers, apiAnswer \in ApiAnswers :
           Apply("execute_request", execute_request(Self, obj, method, tokenAnswer, apiAnswer))
    /\ UNCHANGED <<mapperVars, mainVars>>

GetEvents ==
    /\ last = Idle
    /\ \E tokenAnswer \in TokenAnswers, apiAnswer \in ApiAnswers :
           Apply("get_events", get_events(Self, tokenAnswer, apiAnswer))
    /\ UNCHANGED <<mapperVars, mainVars>>

\* the caller has the result; the next call may begin
Return ==
    /\ last # Idle
    /\ last' = Idle
    /\ UNCHANGED <<client_id, token, accountId, clock, obtained>>
    /\ UNCHANGED <<mapperVars, mainVars>>

\* time passes between calls
Tick ==
    /\ last = Idle
    /\ clock < MaxTime
    /\ clock' = clock + 1
    /\ last' = Idle
    /\ UNCHANGED <<client_id, token, accountId, obtained>>
    /\ UNCHANGED <<mapperVars, mainVars>>

----------------------------------------------------------------------------
(* Diff and report engine (main.py 94-133) *)

\* dateutil.parser.parse on the date strings that occur here.  Instants are
\* seconds after 2030-06-01T00:00:00Z, the unit of the clock; a string with
\* a UTC offset yields an aware datetime at local time minus offset, one
\* without offset a naive datetime, anything else ValueError.
parse(timestr) ==
    IF timestr.k # "str" THEN Raise("TypeError")
    ELSE CASE timestr.v = "2030-06-01T00:00:00+00:00" -> PyDatetime(0)
           [] timestr.v = "2030-06-01T00:00:01+00:00" -> PyDatetime(1)
           [] timestr.v = "2030-06-01T01:00:01+01:00" -> PyDatetime(1)
           [] timestr.v = "2030-06-01T00:00:02+00:00" -> PyDatetime(2)
           [] timestr.v = "2030-06-01T01:00:02+01:00" -> PyDatetime(2)
           [] timestr.v = "2030-06-01T00:00:03+00:00" -> PyDatetime(3)
           [] timestr.v = "2030-06-01T00:00:02" -> [k |-> "naive_datetime", v |-> 2]
           [] OTHER -> Raise("ValueError")

\* Faulty variant: an event starting now is kept
is_after_or_now(start_date, t) == start_date.v >= t.v

\* start_date > now (main.py 99), both aware datetimes
is_after(start_date, t) == start_date.v > t.v

\* t in x.Tags (main.py 95)
has_tag(x, t) == \E i \in DOMAIN x.v.Tags.v : x.v.Tags.v[i] = Str(t)

\* A dict keyed by event id, in insertion order: a sequence of
\* [key, value] with no key twice.
IdDict(entries) == [k |-> "iddict", v |-> entries]
DictHas(d, key) == \E i \in DOMAIN d.v : d.v[i].key = key
DictGet(d, key) == d.v[CHOOSE i \in DOMAIN d.v : d.v[i].key = key].value

\* Faulty variant: an existing key moves to the end
DictSet_moves_key(d, key, value) ==
    IdDict(Append(SelectSeq(d.v, LAMBDA entry : entry.key # key), [key |-> key, value |-> value]))

\* d[key] = value (main.py 100): an existing key keeps its place and takes
\* the new value
DictSet(d, key, value) ==
    IF DictHas(d, key)
    THEN IdDict([i \in DOMAIN d.v |-> IF d.v[i].key = key THEN [key |-> key, value |-> value] ELSE d.v[i]])
    ELSE IdDict(Append(d.v, [key |-> key, value |-> value]))

\* main.py 97-100, from the i-th filtered event on.  Comparing a naive
\* datetime with the aware now raises TypeError.
RECURSIVE filter_loop(_, _, _, _)
filter_event(filtered_events, i, filtered_events_by_id, t, event, start_date) ==
    IF IsRaise(start_date) THEN start_date
    ELSE IF start_date.k # "datetime" THEN Raise("TypeError")
    ELSE IF ~is_after(start_date, t) THEN filter_loop(filtered_events, i + 1, filtered_events_by_id, t)
    ELSE IF ~HasAttr(event, "Id") THEN Raise("AttributeError")
    ELSE filter_loop(filtered_events, i + 1, DictSet(filtered_events_by_id, event.v.Id, event), t)

filter_loop(filtered_events, i, filtered_events_by_id, t) ==
    IF i > Len(filtered_events) THEN filtered_events_by_id
    ELSE filter_event(filtered_events, i, filtered_events_by_id, t, filtered_events[i],
                      IF HasAttr(filtered_events[i], "StartDate") THEN parse(filtered_events[i].v.StartDate) ELSE Raise("AttributeError"))

\* main.filter_by_tag (main.py 94-101), with the now it closes over
filter_by_tag(e, t, current) ==
    IF e.k # "list" THEN Raise("TypeError")
    ELSE IF \E i \in DOMAIN e.v : ~HasAttr(e.v[i], "Tags") THEN Raise("AttributeError")
    ELSE IF \E i \in DOMAIN e.v : e.v[i].v.Tags.k \in {"None", "num"} THEN Raise("TypeError")
    ELSE LET tagged(x) == has_tag(x, t)
         IN  filter_loop(SelectSeq(e.v, tagged), 1, IdDict(<<>>), current)

\* Faulty variant: an event known before is reported whatever its count
classify_ignores_count(event_id, old, new) ==
    IF ~DictHas(old, event_id) THEN PyList(<<SetAttr(DictGet(new, event_id), "report_type", Str("NEW"))>>)
    ELSE PyList(<<SetAttr(DictGet(new, event_id), "report_type", Str("UPDATE"))>>)

\* One turn of the classification loop (main.py 109-119): the entries to
\* add to the report for event_id (one or none), or an exception.
\* report_type is attached to the event object itself; the snapshot lists
\* are not read again, so the model annotates the entry of the report only.
classify(event_id, old, new) ==
    IF ~DictHas(old, event_id) THEN PyList(<<SetAttr(DictGet(new, event_id), "report_type", Str("NEW"))>>)
    ELSE IF ~HasAttr(DictGet(new, event_id), "ConfirmedRegistrationsCount") \/ ~HasAttr(DictGet(old, event_id), "ConfirmedRegistrationsCount")
    THEN Raise("AttributeError")
    ELSE IF DictGet(new, event_id).v.ConfirmedRegistrationsCount # DictGet(old, event_id).v.ConfirmedRegistrationsCount
    THEN PyList(<<SetAttr(DictGet(new, event_id), "report_type", Str("UPDATE"))>>)
    ELSE PyList(<<>>)

\* main.py 107-119, from the i-th key of new_by_tag on
RECURSIVE build_report(_, _, _, _)
add_entry(old, new, i, acc, entry) ==
    IF IsRaise(entry) THEN entry ELSE build_report(old, new, i + 1, acc \o entry.v)

build_report(old, new, i, acc) ==
    IF i > Len(new.v) THEN PyList(acc)
    ELSE add_entry(old, new, i, acc, classify(new.v[i].key, old, new))

\* The block printed for a parsed report entry (main.py 124-133)
block(event, start_date, end_date) ==
    IF IsRaise(start_date) THEN start_date
    ELSE IF IsRaise(end_date) THEN end_date
    ELSE IF ~HasAttr(event, "ConfirmedRegistrationsCount") \/ ~HasAttr(event, "Name") THEN Raise("AttributeError")
    ELSE IF event.v.Name.k # "str" THEN Raise("TypeError")
    ELSE IF ~HasAttr(event, "RegistrationsLimit") \/ ~HasAttr(event, "PendingRegistrationsCount") THEN Raise("AttributeError")
    ELSE [k |-> "block", v |-> [Name |-> event.v.Name.v, TYPE |-> event.v.report_type.v, ID |-> event.v.Id, StartDate |-> start_date, EndDate |-> end_date, Attendees |-> <<event.v.ConfirmedRegistrationsCount, event.v.RegistrationsLimit, event.v.PendingRegistrationsCount>>]]

\* One turn of the rendering loop (main.py 122-133): the block printed for
\* a report entry, or the exception that ends the run.  A block counts as
\* printed when all its lines are.
render(event) ==
    block(event, parse(event.v.StartDate), IF HasAttr(event, "EndDate") THEN parse(event.v.EndDate) ELSE Raise("AttributeError"))

\* The loop stops at the first entry that cannot be rendered
printed_blocks(blocks) ==
    IF AnyRaise(blocks)
    THEN [printed |-> SubSeq(blocks, 1, (CHOOSE i \in DOMAIN blocks : IsRaise(blocks[i]) /\ \A j \in 1..(i - 1) : ~IsRaise(blocks[j])) - 1), exc |-> ExcOf(FirstRaise(blocks))]
    ELSE [printed |-> blocks, exc |-> NoExc]

\* The blocks printed for a report (main.py 121-133)
rendered(entries) == printed_blocks([i \in DOMAIN entries |-> render(entries[i])])

----------------------------------------------------------------------------
(* main() (main.py 39-133) *)

Truthy(x) == x.k = "str" /\ x.v # ""

\* --old-data / --new-data as given: absent, given empty, given a path
OldPaths == {PyNone, Str(""), Str("old.pickle")}
NewPaths == {PyNone, Str(""), Str("new.pickle")}

\* What ./data may hold
DataNames == {"202301010000.pickle", "202301020000.pickle", "notes.txt"}

\* file_pattern.match(f) (main.py 76-77): twelve digits and .pickle
file_pattern_match(f) == f \in {"202301010000.pickle", "202301020000.pickle"}

\* Place of a matching name in lexicographic order (main.py 78)
NameOrder(f) == IF f = "202301020000.pickle" THEN 2 ELSE 1

\* join(data_path, f) (main.py 77)
join(f) == IF f = "202301020000.pickle" THEN Str("./data/202301020000.pickle") ELSE Str("./data/202301010000.pickle")

\* data_filenames[0] after the reverse sort (main.py 77-79)
most_recent(dir) ==
    IF {f \in dir : file_pattern_match(f)} = {} THEN Raise("IndexError")
    ELSE join(CHOOSE f \in dir : file_pattern_match(f) /\ \A g \in dir : file_pattern_match(g) => NameOrder(g) <= NameOrder(f))

\* A pickle of a Python value; a file that is missing
Pickled(x) == [k |-> "pickle", v |-> x]
Missing == [k |-> "missing", v |-> 0]

\* WaApiClient.load_data_from_file (api.py 144-148) on a file's content
load_data_from_file(content) ==
    CASE content.k = "missing" -> Raise("FileNotFoundError")
      [] content.k = "pickle" -> content.v
      [] OTHER -> Raise("UnpicklingError")

\* Events as they sit in a snapshot: what get_events returned
Event(id, tags, start, end, confirmed) == ApiObject(json_loads(EventJson(id, tags, start, end, confirmed)))

AtStart == "2030-06-01T01:00:01+01:00"
Future == "2030-06-01T00:00:02+00:00"
Later == "2030-06-01T00:00:03+00:00"

\* The snapshots of spec section 8, and some that cannot be processed
StoredSnapshots ==
    { PyList(<<Event(1, <<"eta-class">>, Future, Later, 5)>>),
      PyList(<<Event(1, <<"eta-class">>, Future, Later, 7), Event(2, <<"eta-class">>, Future, Later, 0)>>),
      PyList(<<Event(1, <<"eta-class">>, Future, Later, 7), Event(3, <<"eta-class">>, "soon", Later, 0)>>),
      PyList(<<Event(2, <<"eta-class">>, Future, Later, 0), Event(4, <<"eta-class">>, Future, "tbd", 1)>>),
      PyNone }

FileContents == {Missing, InvalidBytes} \cup {Pickled(x) : x \in StoredSnapshots}

\* Answers of the events collection
EventsAnswers ==
    {a \in ApiAnswers : a.status # 200}
    \cup {Answer(200, b) : b \in {InvalidBytes, Bytes(Obj([Id |-> Num(1)]))}}
    \cup {Answer(200, Bytes(json_dumps(PyApiObject([Events |-> x])))) : x \in StoredSnapshots \ {PyNone}}

Unset == Pending

Step(name, ok, r) == [name |-> name, ok |-> ok, token_requests |-> r.token_requests, api_requests |-> r.api_requests]
LocalStep(name, ok) == [name |-> name, ok |-> ok, token_requests |-> 0, api_requests |-> 0]

\* The process ends: sys.exit(status), an uncaught exception (status 1), or
\* falling off the end of main() (status 0)
Exit(status) ==
    /\ pc' = "exit"
    /\ exit_status' = status

\* The run goes on at the given place
Goto(place) ==
    /\ pc' = place
    /\ UNCHANGED exit_status

\* main.py 50-68
ParseOptions ==
    /\ pc = "start"
    /\ steps' = Append(steps, LocalStep("parse", ~argv.bad))
    /\ IF argv.bad THEN Exit("2") /\ UNCHANGED <<old_data_filename, new_data_filename, now>>
       ELSE IF argv.help THEN Exit("0") /\ UNCHANGED <<old_data_filename, new_data_filename, now>>
       ELSE /\ old_data_filename' = argv.old
            /\ new_data_filename' = argv.new
            /\ now' = PyDatetime(clock)
            /\ Goto("check_flags")
    /\ UNCHANGED <<argv, data_dir, old_events, new_events, old_by_tag, new_by_tag, report, printed, written>>
    /\ UNCHANGED <<mapperVars, clientVars>>

\* Faulty variant: only a missing --new-data is noticed
one_flag_only_old(old, new) == Truthy(old) /\ ~Truthy(new)

\* main.py 70
one_flag_only(old, new) == (~Truthy(old) /\ Truthy(new)) \/ (Truthy(old) /\ ~Truthy(new))

\* main.py 70-72
CheckFlags ==
    /\ pc = "check_flags"
    /\ steps' = Append(steps, LocalStep("check_flags", ~one_flag_only(old_data_filename, new_data_filename)))
    /\ IF one_flag_only(old_data_filename, new_data_filename)
       THEN Exit("1")
       ELSE Goto(IF Truthy(old_data_filename) THEN "load_old" ELSE "select_old")
    /\ UNCHANGED <<argv, now, old_data_filename, new_data_filename, data_dir, old_events, new_events, old_by_tag, new_by_tag, report, printed, written>>
    /\ UNCHANGED <<mapperVars, clientVars>>

Selected(name) ==
    /\ steps' = Append(steps, LocalStep("select_old", ~IsRaise(name)))
    /\ IF IsRaise(name)
       THEN Exit("1") /\ UNCHANGED old_data_filename
       ELSE old_data_filename' = name /\ Goto("load_old")

\* main.py 74-79; listdir answers with what ./data holds at that moment
SelectOld ==
    /\ pc = "select_old"
    /\ \E dir \in SUBSET DataNames : data_dir' = dir /\ Selected(most_recent(dir))
    /\ UNCHANGED <<argv, now, new_data_filename, old_events, new_events, old_by_tag, new_by_tag, report, printed, written>>
    /\ UNCHANGED <<mapperVars, clientVars>>

LoadedOld(data) ==
    /\ steps' = Append(steps, LocalStep("load_old", ~IsRaise(data)))
    /\ IF IsRaise(data)
       THEN Exit("1") /\ UNCHANGED old_events
       ELSE old_events' = data /\ Goto(IF Truthy(new_data_filename) THEN "load_new" ELSE "authenticate")

\* main.py 80
LoadOld ==
    /\ pc = "load_old"
    /\ \E content \in FileContents : LoadedOld(load_data_from_file(content))
    /\ UNCHANGED <<argv, now, old_data_filename, new_data_filename, data_dir, new_events, old_by_tag, new_by_tag, report, printed, written>>
    /\ UNCHANGED <<mapperVars, clientVars>>

LoadedNew(data) ==
    /\ steps' = Append(steps, LocalStep("load_new", ~IsRaise(data)))
    /\ IF IsRaise(data)
       THEN Exit("1") /\ UNCHANGED new_events
       ELSE new_events' = data /\ Goto("diff")

\* main.py 92
LoadNew ==
    /\ pc = "load_new"
    /\ \E content \in FileContents : LoadedNew(load_data_from_file(content))
    /\ UNCHANGED <<argv, now, old_data_filename, new_data_filename, data_dir, old_events, old_by_tag, new_by_tag, report, printed, written>>
    /\ UNCHANGED <<mapperVars, clientVars>>

Authenticated(r) ==
    /\ Apply("authenticate_with_apikey", r)
    /\ steps' = Append(steps, Step("authenticate", r.exc = NoExc, r))
    /\ IF r.exc # NoExc THEN Exit("1") ELSE Goto("fetch")

\* main.py 84-85: the client is built with client_id None and authenticates
MainAuthenticate ==
    /\ pc = "authenticate"
    /\ \E answer \in TokenAnswers : Authenticated(authenticate_with_apikey(Self, answer))
    /\ UNCHANGED <<argv, now, old_data_filename, new_data_filename, data_dir, old_events, new_events, old_by_tag, new_by_tag, report, printed, written>>
    /\ UNCHANGED mapperVars

\* Faulty variant: a failed fetch does not end the run
Fetched_goes_on(r) ==
    /\ Apply("get_events", r)
    /\ steps' = Append(steps, Step("fetch", r.exc = NoExc, r))
    /\ new_events' = r.ret
    /\ Goto("dump")

\* main.py 86: new_events = api.get_events()
Fetched(r) ==
    /\ Apply("get_events", r)
    /\ steps' = Append(steps, Step("fetch", r.exc = NoExc, r))
    /\ IF r.exc # NoExc
       THEN Exit("1") /\ UNCHANGED new_events
       ELSE new_events' = r.ret /\ Goto("dump")

\* Seconds that may pass between authenticate_with_apikey and get_events
Elapsed == {0, 1}

\* main.py 86
Fetch ==
    /\ pc = "fetch"
    /\ \E dt \in Elapsed, tokenAnswer \in TokenAnswers, apiAnswer \in EventsAnswers : Fetched(get_events([Self EXCEPT !.clock = clock + dt], tokenAnswer, apiAnswer))
    /\ UNCHANGED <<argv, now, old_data_filename, new_data_filename, data_dir, old_events, old_by_tag, new_by_tag, report, printed, written>>
    /\ UNCHANGED mapperVars

\* main.py 88-90 with WaApiClient.dump_data_to_file (api.py 150-155): the
\* file is named after now; open() may fail, and so may write() after
\* open() has created the file.
Dump ==
    /\ pc = "dump"
    /\ \E outcome \in {"written", "open fails", "write fails"} :
          /\ steps' = Append(steps, LocalStep("dump", outcome = "written"))
          /\ written' = CASE outcome = "written" -> Append(written, [timestamp |-> now.v, content |-> Pickled(new_events)])
                          [] outcome = "write fails" -> Append(written, [timestamp |-> now.v, content |-> InvalidBytes])
                          [] OTHER -> written
          /\ IF outcome = "written" THEN Goto("diff") ELSE Exit("1")
    /\ UNCHANGED <<argv, now, old_data_filename, new_data_filename, data_dir, old_events, new_events, old_by_tag, new_by_tag, report, printed>>
    /\ UNCHANGED <<mapperVars, clientVars>>

\* main.py 104-105
TargetTag == "eta-class"

Diffed(ok, old, new, r) ==
    /\ steps' = Append(steps, LocalStep("diff", ok))
    /\ old_by_tag' = old
    /\ new_by_tag' = new
    /\ report' = r
    /\ IF ok THEN Goto("print") ELSE Exit("1")

\* main.py 107-119 once both filters returned
Classified(old, new, r) ==
    IF IsRaise(r) THEN Diffed(FALSE, old, new, Unset) ELSE Diffed(TRUE, old, new, r)

\* main.py 104-105
Filtered(old, new) ==
    IF IsRaise(old) THEN Diffed(FALSE, Unset, Unset, Unset)
    ELSE IF IsRaise(new) THEN Diffed(FALSE, old, Unset, Unset)
    ELSE Classified(old, new, build_report(old, new, 1, <<>>))

\* main.py 103-119: both filters, then the classification loop
Diff ==
    /\ pc = "diff"
    /\ Filtered(filter_by_tag(old_events, TargetTag, now), filter_by_tag(new_events, TargetTag, now))
    /\ UNCHANGED <<argv, now, old_data_filename, new_data_filename, data_dir, old_events, new_events, printed, written>>
    /\ UNCHANGED <<mapperVars, clientVars>>

Printed(r) ==
    /\ steps' = Append(steps, LocalStep("print", r.exc = NoExc))
    /\ printed' = r.printed
    /\ Exit(IF r.exc = NoExc THEN "0" ELSE "1")

\* main.py 121-133
PrintReport ==
    /\ pc = "print"
    /\ Printed(rendered(report.v))
    /\ UNCHANGED <<argv, now, old_data_filename, new_data_filename, data_dir, old_events, new_events, old_by_tag, new_by_tag, report, written>>
    /\ UNCHANGED <<mapperVars, clientVars>>

\* no run of main()
MainIdle ==
    /\ argv = [bad |-> FALSE, help |-> FALSE, old |-> PyNone, new |-> PyNone]
    /\ pc = "idle"
    /\ now = Unset
    /\ old_data_filename = PyNone
    /\ new_data_filename = PyNone
    /\ data_dir = {}
    /\ old_events = Unset
    /\ new_events = Unset
    /\ old_by_tag = Unset
    /\ new_by_tag = Unset
    /\ report = Unset
    /\ printed = <<>>
    /\ written = <<>>
    /\ steps = <<>>
    /\ exit_status = "running"

\* When the process starts, on the clock
StartTimes == {1}

\* main()'s client (main.py 84), before it is used
MainClient ==
    /\ client_id = "None"
    /\ token = PyNone
    /\ accountId = NoAttr
    /\ clock \in StartTimes
    /\ obtained = FALSE
    /\ last = Idle

\* the process starts
MainInit ==
    /\ argv \in [bad : BOOLEAN, help : BOOLEAN, old : OldPaths, new : NewPaths]
    /\ pc = "start"
    /\ now = Unset
    /\ old_data_filename = PyNone
    /\ new_data_filename = PyNone
    /\ data_dir = {}
    /\ old_events = Unset
    /\ new_events = Unset
    /\ old_by_tag = Unset
    /\ new_by_tag = Unset
    /\ report = Unset
    /\ printed = <<>>
    /\ written = <<>>
    /\ steps = <<>>
    /\ exit_status = "running"
    /\ MainClient
    /\ MapperIdle

(* Bounded snapshots for the diff engine *)
MaxOldLen == 1
MaxNewLen == 3
EventIds == {1, 2}
Counts == {0, 1}

\* Events that pass the filter at a start time of StartTimes, and events
\* that do not: without the tag, or starting exactly at that time
QualifyingEvents == {Event(id, <<"eta-class">>, Future, Later, c) : id \in EventIds, c \in Counts}
ExcludedEvents == {Event(id, <<"other">>, Future, Later, 1) : id \in EventIds} \cup {Event(id, <<"eta-class", "other">>, AtStart, Later, 1) : id \in EventIds}
EventUniverse == QualifyingEvents \cup ExcludedEvents

Snapshots(n) == {PyList(s) : s \in UNION {[1..m -> EventUniverse] : m \in 0..n}}

\* main() with --old-data and --new-data given, once both files are loaded
\* (main.py 92)
DiffInit ==
    /\ argv = [bad |-> FALSE, help |-> FALSE, old |-> Str("old.pickle"), new |-> Str("new.pickle")]
    /\ pc = "diff"
    /\ clock \in StartTimes
    /\ now = PyDatetime(clock)
    /\ old_data_filename = Str("old.pickle")
    /\ new_data_filename = Str("new.pickle")
    /\ data_dir = {}
    /\ old_events \in Snapshots(MaxOldLen)
    /\ new_events \in Snapshots(MaxNewLen)
    /\ old_by_tag = Unset
    /\ new_by_tag = Unset
    /\ report = Unset
    /\ printed = <<>>
    /\ written = <<>>
    /\ steps = <<LocalStep("parse", TRUE), LocalStep("check_flags", TRUE), LocalStep("load_old", TRUE), LocalStep("load_new", TRUE)>>
    /\ exit_status = "running"
    /\ client_id = "None"
    /\ token = PyNone
    /\ accountId = NoAttr
    /\ obtained = FALSE
    /\ last = Idle
    /\ MapperIdle

----------------------------------------------------------------------------
(* Specifications *)

\* Calls on a WaApiClient instance, in any order
Init == ClientInit /\ MapperIdle /\ MainIdle
Next == Authenticate \/ GetAccessToken \/ ExecuteRequest \/ GetEvents \/ Return \/ Tick
Spec == Init /\ [][Next]_vars

\* One decode-then-encode through the Dynamic Object Mapper
InitMapper == MapperInit /\ MainClient /\ MainIdle
NextMapper == Decode \/ Encode
SpecMapper == InitMapper /\ [][NextMapper]_vars

\* One run of main()
NextMain == ParseOptions \/ CheckFlags \/ SelectOld \/ LoadOld \/ LoadNew \/ MainAuthenticate \/ Fetch \/ Dump \/ Diff \/ PrintReport
SpecMain == MainInit /\ [][NextMain]_vars

\* The diff and the report of one run, over bounded snapshots
NextDiff == Diff \/ PrintReport
SpecDiff == DiffInit /\ [][NextDiff]_vars

----------------------------------------------------------------------------
(* Claims about the client (Spec) *)

IsCall == last.op # "none"

\* The deadline check the last call made, if it made one
Checked == IsCall /\ last.checked # <<>>
Deadline == last.checked[1].retrieved_at + last.checked[1].expires_in - Margin

\* C1 (as amended): for a token with retrieved_at = T0 and expires_in = E, a
\* call of _get_access_token (directly or from execute_request / get_events)
\* at a time t strictly after T0 + E - 100 calls the refresh exactly once,
\* and a call at t <= T0 + E - 100, the boundary instant included, calls it
\* not at all; when the call returns, it returns the access token string of
\* the token then stored.
C1_RefreshAfterDeadline ==
    Checked =>
        /\ last.checked[1].retrieved_at = last.pre.token.v.retrieved_at.v
        /\ last.checked[1].expires_in = last.pre.token.v.expires_in.v
        /\ last.checked[1].now = last.pre.clock
        /\ last.refreshes = (IF last.checked[1].now > Deadline THEN 1 ELSE 0)
        /\ last.token_requests <= last.refreshes
        /\ (last.op = "_get_access_token" /\ last.exc = NoExc) => (last.ret.k = "str" /\ last.ret = token.v.access_token)

\* C1 witness: a call after the deadline refreshed once and returned the
\* new token's string
C1_Witness ==
    /\ Checked
    /\ last.op = "_get_access_token"
    /\ last.checked[1].now > Deadline
    /\ last.refreshes = 1
    /\ last.exc = NoExc
    /\ last.ret = token.v.access_token
    /\ token # last.pre.token

\* C1 as stated: a call at t >= T0 + E - 100, the boundary included,
\* refreshes exactly once, and a call strictly before refreshes not at all.
C1_RefreshAtDeadline ==
    Checked => last.refreshes = (IF last.checked[1].now >= Deadline THEN 1 ELSE 0)

\* C5 as stated: on a client for which no token has ever been obtained,
\* _get_access_token, execute_request and get_events fail with the 'access
\* token not obtained' error, send no request, and leave the client
\* unauthenticated.
C5_UnauthenticatedCallsFail ==
    (IsCall /\ last.op \in {"_get_access_token", "execute_request", "get_events"} /\ ~last.pre.obtained) =>
        /\ last.exc = Exc("ApiException", NotObtainedMessage)
        /\ last.token_requests = 0
        /\ last.api_requests = 0
        /\ token = PyNone
        /\ accountId = NoAttr
        /\ ~obtained

\* C6: when the resource call of execute_request (made directly or from
\* get_events) is answered with HTTP status 400, the call raises
\* ApiException whose value is the raw body; with any other error status it
\* raises the HTTPError itself; either way the resource was asked once.
C6_HttpErrors ==
    (IsCall /\ last.op \in {"execute_request", "get_events"} /\ last.api_requests > 0 /\ last.answer.status \notin {0, 200}) =>
        /\ last.pre.token # PyNone
        /\ last.api_requests = 1
        /\ last.exc = (IF last.answer.status = 400 THEN Exc("ApiException", last.answer.body) ELSE Exc("HTTPError", last.answer))

\* C6 witness: a 400 answer became an ApiException carrying the body
C6_Witness ==
    /\ IsCall
    /\ last.op = "execute_request"
    /\ last.api_requests = 1
    /\ last.answer.status = 400
    /\ last.exc = Exc("ApiException", ErrorBody)

\* C10 as stated: an authenticate_with_apikey or a refresh that raises
\* leaves _token and _accountId as they were before the call.
C10_FailedAuthKeepsState ==
    (IsCall /\ last.auth_failed) => (token = last.pre.token /\ accountId = last.pre.accountId)

----------------------------------------------------------------------------
(* Claims about the Dynamic Object Mapper (SpecMapper) *)

\* C4 as stated: decoding any JSON document and encoding the result
\* succeeds and gives back a document equal to the input.
C4_RoundTrip ==
    /\ decoded # Pending => ~IsRaise(decoded)
    /\ encoded # Pending => encoded = json_in

----------------------------------------------------------------------------
(* Claims about main() (SpecMain) *)

StepNames == [i \in DOMAIN steps |-> steps[i].name]
Begun(name) == \E i \in DOMAIN steps : steps[i].name = name
Times(name) == Cardinality({i \in DOMAIN steps : steps[i].name = name})

RECURSIVE Sum(_, _)
Sum(f, i) == IF i = 0 THEN 0 ELSE f[i] + Sum(f, i - 1)
TokenRequests == Sum([i \in DOMAIN steps |-> steps[i].token_requests], Len(steps))
ApiRequests == Sum([i \in DOMAIN steps |-> steps[i].api_requests], Len(steps))

\* The command line holds exactly one of --old-data / --new-data (with a
\* path) and nothing else
OnlyOneFlag ==
    /\ ~argv.bad
    /\ ~argv.help
    /\ Truthy(argv.old) # Truthy(argv.new)

\* C7: a run given exactly one of --old-data / --new-data ends with exit
\* status 1 right after the flag check: it never authenticates, fetches,
\* lists or loads a snapshot, or writes one.
C7_OneFlagExitsEarly ==
    OnlyOneFlag =>
        /\ pc \in {"start", "check_flags", "exit"}
        /\ pc = "exit" => (exit_status = "1" /\ StepNames = <<"parse", "check_flags">>)
        /\ TokenRequests = 0 /\ ApiRequests = 0
        /\ last = Idle /\ token = PyNone
        /\ old_events = Unset /\ new_events = Unset /\ data_dir = {}
        /\ written = <<>>

\* C7 witness: a run with only --old-data has ended with status 1
C7_Witness ==
    /\ Truthy(argv.old) /\ argv.new = PyNone /\ ~argv.help /\ ~argv.bad
    /\ pc = "exit"
    /\ exit_status = "1"
    /\ StepNames = <<"parse", "check_flags">>

\* Place of a step in the order authentication, fetch, snapshot write,
\* diff, report print; what comes before them has place 0
Place(name) ==
    CASE name = "authenticate" -> 1
      [] name = "fetch" -> 2
      [] name = "dump" -> 3
      [] name = "diff" -> 4
      [] name = "print" -> 5
      [] OTHER -> 0

\* C8: in every run the steps begun are, in this order, at most one
\* authentication, at most one fetch (only right after a successful
\* authentication), at most one snapshot write (only right after a
\* successful fetch), one diff, one report print; authentication, fetch and
\* write happen only without a new-data path; a failed step is the last
\* one; a run that ends with status 0 (not for --help) did one diff and one
\* print, and without a new-data path one authentication, one fetch and one
\* write as well.
C8_StepOrder ==
    /\ \A i, j \in DOMAIN steps : (i < j /\ Place(steps[j].name) > 0) => Place(steps[i].name) < Place(steps[j].name)
    /\ \A i \in DOMAIN steps : ~steps[i].ok => i = Len(steps)
    /\ \A i \in DOMAIN steps : steps[i].name = "fetch" => (i > 1 /\ steps[i - 1].name = "authenticate")
    /\ \A i \in DOMAIN steps : steps[i].name = "dump" => (i > 1 /\ steps[i - 1].name = "fetch")
    /\ \A i \in DOMAIN steps : steps[i].name = "print" => (i > 1 /\ steps[i - 1].name = "diff")
    /\ \A i \in DOMAIN steps : steps[i].token_requests > 0 => steps[i].name = "authenticate"
    /\ \A i \in DOMAIN steps : steps[i].api_requests > 0 => steps[i].name = "fetch"
    /\ TokenRequests <= 1 /\ ApiRequests <= 1 /\ Len(written) <= 1
    /\ Len(written) = 1 => Begun("dump")
    /\ (Begun("authenticate") \/ Begun("fetch") \/ Begun("dump")) => ~Truthy(new_data_filename)
    /\ (pc = "exit" /\ exit_status = "0" /\ ~argv.help) =>
          /\ Times("diff") = 1 /\ Times("print") = 1
          /\ ~Truthy(new_data_filename) => (Times("authenticate") = 1 /\ Times("fetch") = 1 /\ Times("dump") = 1 /\ Len(written) = 1)

\* C8 witness: a run without data flags went through all five steps
C8_Witness ==
    /\ pc = "exit"
    /\ exit_status = "0"
    /\ Len(steps) >= 5
    /\ [i \in 1..5 |-> steps[Len(steps) - 5 + i].name] = <<"authenticate", "fetch", "dump", "diff", "print">>
    /\ Len(printed) = 2

----------------------------------------------------------------------------
(* Claims about the diff engine (SpecDiff) *)

\* The filter as the specification words it
Tagged(event) == \E i \in DOMAIN event.v.Tags.v : event.v.Tags.v[i] = Str(TargetTag)
Upcoming(event) == parse(event.v.StartDate).v > now.v
QualifyingAt(events) == {i \in DOMAIN events.v : Tagged(events.v[i]) /\ Upcoming(events.v[i])}
OccurrencesOf(events, id) == {i \in QualifyingAt(events) : events.v[i].v.Id = id}
FirstAt(events, id) == CHOOSE i \in OccurrencesOf(events, id) : \A j \in OccurrencesOf(events, id) : i <= j
LastAt(events, id) == CHOOSE i \in OccurrencesOf(events, id) : \A j \in OccurrencesOf(events, id) : j <= i

Keys(d) == {d.v[i].key : i \in DOMAIN d.v}
ValueOf(d, id) == d.v[CHOOSE i \in DOMAIN d.v : d.v[i].key = id].value
Annotated(event, type) == [k |-> event.k, v |-> [name \in DOMAIN event.v \cup {"report_type"} |-> IF name = "report_type" THEN type ELSE event.v[name]]]

\* The pairs (Id, report_type) of the report
Entries == {<<report.v[i].v.Id, report.v[i].v.report_type>> : i \in DOMAIN report.v}
Changed == {id \in Keys(new_by_tag) \cap Keys(old_by_tag) : ValueOf(new_by_tag, id).v.ConfirmedRegistrationsCount # ValueOf(old_by_tag, id).v.ConfirmedRegistrationsCount}

\* C2: the report holds exactly one entry NEW for each Id of the new
\* filtered set that the old filtered set lacks, and one entry UPDATE for
\* each Id in both whose ConfirmedRegistrationsCount differs; every entry is
\* the event of the new filtered set with its report_type; an Id in both
\* with the same count and an Id only in the old set have no entry.
C2_ReportEntries ==
    report # Unset =>
        /\ Entries = {<<id, Str("NEW")>> : id \in Keys(new_by_tag) \ Keys(old_by_tag)} \cup {<<id, Str("UPDATE")>> : id \in Changed}
        /\ \A i, j \in DOMAIN report.v : report.v[i].v.Id = report.v[j].v.Id => i = j
        /\ \A i \in DOMAIN report.v : report.v[i] = Annotated(ValueOf(new_by_tag, report.v[i].v.Id), report.v[i].v.report_type)

\* C2 witness: one event changed its count and one is new, as in the
\* example of the specification; a third reading of the changed event's
\* Id is absent
C2_Witness ==
    /\ report # Unset
    /\ Len(report.v) = 2
    /\ report.v[1].v.report_type = Str("UPDATE")
    /\ report.v[2].v.report_type = Str("NEW")
    /\ Len(old_by_tag.v) = 1

IsFilterOf(d, events) ==
    /\ \A i, j \in DOMAIN d.v : d.v[i].key = d.v[j].key => i = j
    /\ Keys(d) = {events.v[i].v.Id : i \in QualifyingAt(events)}
    /\ \A i \in DOMAIN d.v : d.v[i].value = events.v[LastAt(events, d.v[i].key)]

\* C3: filter_by_tag gives a mapping whose keys are exactly the Ids of the
\* events that carry the tag and start strictly after now, each mapped to
\* the last such event with that Id; events at or before now or without the
\* tag are in neither filtered set.
C3_FilterByTag ==
    /\ old_by_tag # Unset => IsFilterOf(old_by_tag, old_events)
    /\ new_by_tag # Unset => IsFilterOf(new_by_tag, new_events)

\* C3 witness: the new snapshot held an Id twice with different events, an
\* event starting exactly now and an untagged one was filtered out of the
\* old snapshot
C3_Witness ==
    /\ new_by_tag # Unset
    /\ \E i, j \in QualifyingAt(new_events) : i < j /\ new_events.v[i].v.Id = new_events.v[j].v.Id /\ new_events.v[i] # new_events.v[j]
    /\ \E i \in DOMAIN new_events.v : Tagged(new_events.v[i]) /\ ~Upcoming(new_events.v[i])
    /\ \E i \in DOMAIN old_events.v : ~Tagged(old_events.v[i])
    /\ old_by_tag = IdDict(<<>>)

Reported == pc = "exit" /\ exit_status = "0"

\* C9 (as amended): each reported Id is printed exactly once, as the last
\* tagged, upcoming event of the new snapshot with that Id, and the blocks
\* come in the order in which their Ids first occur among the tagged,
\* upcoming events of the new snapshot.
C9_FirstOccurrenceOrder ==
    Reported =>
        /\ Len(printed) = Len(report.v)
        /\ \A i \in DOMAIN printed : printed[i].v.ID = report.v[i].v.Id /\ printed[i].v.TYPE = report.v[i].v.report_type.v
        /\ \A i, j \in DOMAIN printed : printed[i].v.ID = printed[j].v.ID => i = j
        /\ \A i \in DOMAIN printed : report.v[i] = Annotated(new_events.v[LastAt(new_events, printed[i].v.ID)], report.v[i].v.report_type)
        /\ \A i, j \in DOMAIN printed : i < j => FirstAt(new_events, printed[i].v.ID) < FirstAt(new_events, printed[j].v.ID)

\* C9 witness: two blocks were printed for a new snapshot in which the Id
\* of the first block repeats with a different event after the event of
\* the second block
C9_Witness ==
    /\ Reported
    /\ Len(printed) = 2
    /\ FirstAt(new_events, printed[1].v.ID) < FirstAt(new_events, printed[2].v.ID)
    /\ LastAt(new_events, printed[1].v.ID) > LastAt(new_events, printed[2].v.ID)
    /\ new_events.v[FirstAt(new_events, printed[1].v.ID)] # new_events.v[LastAt(new_events, printed[1].v.ID)]

\* C9 as stated: each reported Id is printed exactly once, and of any two
\* blocks the one printed first is an event that occurs earlier in the new
\* snapshot than the one printed second.
C9_SnapshotOrder ==
    Reported =>
        /\ \A i, j \in DOMAIN printed : printed[i].v.ID = printed[j].v.ID => i = j
        /\ \A i, j \in DOMAIN printed : i < j =>
              \E p, q \in DOMAIN new_events.v :
                  /\ p < q
                  /\ report.v[i] = Annotated(new_events.v[p], report.v[i].v.report_type)
                  /\ report.v[j] = Annotated(new_events.v[q], report.v[j].v.report_type)

====
